---- MODULE Spec2Model ----
(***************************************************************************)
(* The bathroom-stall graffiti wall: stroke capture (useDrawing), velocity *)
(* gate, angle snapper and opacity decay; the wall renderer and the        *)
(* coordinate transforms; the page with its mark list, POST /api/graffiti, *)
(* the broadcast channel, the session and the rate limiter; the view's     *)
(* rotation.                                                               *)
(*                                                                         *)
(* Numbers.  Normalised wall coordinates of the recorder are fixed-point   *)
(* integers in units of 1/UNIT.  Screen samples, wall bounds and canvas    *)
(* sizes are chosen so that every quotient of getPointFromEvent and        *)
(* shouldAcceptPoint is exact, and the recorder's arithmetic is exact.     *)
(* The two irrational steps of snapToAngle (the distance and the diagonal  *)
(* component) are truncated towards the reference point, so a snapped      *)
(* point of the model is never farther from the reference point than the   *)
(* point the code computes.  The coordinate transforms are computed in a   *)
(* binary floating-point format of MantissaBits bits, rounded to nearest   *)
(* even as IEEE 754 rounds; opacities are rationals.                       *)
(***************************************************************************)
EXTENDS Integers, Sequences, FiniteSets, TLC

VARIABLES
    implement,      \* useState<ImplementType>("scribble")
    strokes,        \* useState<Stroke[]>([])
    currentStroke,  \* useState<StrokePoint[]>([])  -- the working path
    isDrawing,      \* useState(false)              -- Idle / Active
    lastPointRef,   \* useRef<TimedPoint | null>(null)
    camera,         \* cameraRef.current, as the wall rectangle it projects
    clock,          \* Date.now(), in ms
    submitted,      \* the onSubmit call made by the latest pointer handler
    ev,             \* the latest pointer handler and what it did
    probe,          \* inputs and result of a pure-function evaluation
    server,         \* rows of the graffiti table for the faced wall
    graffiti,       \* useState<GraffitiState>: the client's marks, faced wall
    texture,        \* the memoized CanvasTexture of the faced wall
    request,        \* the create request of the latest submit
    channel,        \* 'new-graffiti' messages published, not yet delivered
    hasPosted,      \* sessionStorage 'stall_has_posted'
    frame,          \* the latest animation frame: its time and what it showed
    results,        \* fetchGraffiti between its read of the table and setGraffiti
    facing,         \* useState<FacingDirection>("front")
    isTransitioning,\* useState(false): the camera is turning
    touchStartX,    \* useRef<number | null>(null)
    flags,          \* FEATURE_FLAGS of the build
    sessionId,      \* sessionStorage 'stall_session_id'
    lastActivity,   \* sessionStorage 'stall_last_activity'
    inflight,       \* create requests sent and not yet answered, by session
    rateLimitMap,   \* new Map<string, RateLimitEntry>()
    lastCleanup     \* let lastCleanup = Date.now()

vars == <<implement, strokes, currentStroke, isDrawing, lastPointRef,
          camera, clock, submitted, ev, probe,
          server, graffiti, texture, request, channel, hasPosted, frame,
          results, facing, isTransitioning, touchStartX,
          flags, sessionId, lastActivity, inflight, rateLimitMap, lastCleanup>>

viewVars == <<facing, isTransitioning, touchStartX>>

sessionVars == <<flags, sessionId, lastActivity, inflight>>

limiterVars == <<rateLimitMap, lastCleanup>>

restVars == <<results, viewVars, sessionVars, limiterVars>>

pageVars == <<server, graffiti, texture, request, channel, hasPosted, frame,
              restVars>>

recorderVars == <<implement, strokes, currentStroke, isDrawing, lastPointRef,
                  camera, submitted, ev>>

----------------------------------------------------------------------------
(* Bounds of the model *)

MaxPath == 2
MaxClock == 800
MaxNow == 8
MaxMarks == 1
MaxPageClock == 400
MantissaBits == 4
MaxCalls == 7
MaxClientHours == 3
MaxInflight == 2
MaxPosts == 2
MaxSessionMinutes == 5

----------------------------------------------------------------------------
(* Values *)

UNIT == 400

Null == [null |-> TRUE]

Implements == {"scribble", "marker", "carved", "whiteout"}

FadingImplements == Implements \ {"carved"}

Point(px, py) == [x |-> px, y |-> py]

\* a point with a NaN coordinate: nan.x and nan.y say which coordinate is
\* NaN; the x or y field of a NaN coordinate is 0 and is never read
NaNPoint(nx, ny, px, py) ==
    [x |-> IF nx THEN 0 ELSE px, y |-> IF ny THEN 0 ELSE py,
     nan |-> [x |-> nx, y |-> ny]]

HasNaN(point) == "nan" \in DOMAIN point

Walls == {"front", "left", "right"}

createTimedPoint(point, time) ==
    IF HasNaN(point)
    THEN [x |-> point.x, y |-> point.y, time |-> time, nan |-> point.nan]
    ELSE [x |-> point.x, y |-> point.y, time |-> time]

\* const CARVE_VELOCITY_THRESHOLD = 0.15, as the fraction 3/20
CARVE_VELOCITY_THRESHOLD == [num |-> 3, den |-> 20]

\* const CARVE_MIN_SNAP_DISTANCE = 0.01, in units of 1/UNIT
CARVE_MIN_SNAP_DISTANCE == UNIT \div 100

\* selectorMode = false: the hook's default; the debug selector is off
selectorMode == FALSE

MINUTE == 60 * 1000

HOUR == 60 * 60 * 1000

\* FEATURE_FLAGS.ENABLE_SESSION_POST_LIMIT
ENABLE_SESSION_POST_LIMIT == FALSE

\* FEATURE_FLAGS, as shipped
FEATURE_FLAGS ==
    [ENABLE_SESSION_TIMEOUT |-> FALSE, ENABLE_RATE_LIMITING |-> FALSE,
     ENABLE_SESSION_POST_LIMIT |-> ENABLE_SESSION_POST_LIMIT]

\* canvas.getBoundingClientRect(): the overlay canvas fills the view
rect == [left |-> 0, top |-> 0, width |-> 400, height |-> 600]

\* pixel distances are kept in units of 1/SUB px
SUB == 2

Abs(n) == IF n < 0 THEN 0 - n ELSE n

RECURSIVE SqrtSearch(_, _, _)
SqrtSearch(n, lo, hi) ==
    IF lo >= hi THEN lo
    ELSE LET mid == (lo + hi + 1) \div 2
         IN  IF mid * mid <= n THEN SqrtSearch(n, mid, hi)
                               ELSE SqrtSearch(n, lo, mid - 1)

\* floor of Math.sqrt(n)
FloorSqrt(n) == SqrtSearch(n, 0, 4 * UNIT)

----------------------------------------------------------------------------
(* Inputs *)

\* Wall rectangles (canvas pixels) a perspective camera projects the faced
\* wall to: inside the canvas, with positive width and height.
WallBoundsSet ==
    { [minX |-> 100, maxX |-> 300, minY |-> 100, maxY |-> 500] }

CameraStates ==
    { [kind |-> "none"], [kind |-> "ortho"] } \cup
    { [kind |-> "persp", bounds |-> b] : b \in WallBoundsSet }

\* Pointer positions (clientX, clientY)
Samples ==
    { [x |-> 280, y |-> 300], [x |-> 300, y |-> 316], [x |-> 200, y |-> 300],
      [x |-> 201, y |-> 300], [x |-> 220, y |-> 330], [x |-> 50,  y |-> 50] }

TickSet == {400}

----------------------------------------------------------------------------
(* Pure functions *)

\* calculateWallBounds: null unless the camera is a perspective camera
calculateWallBounds(cam) ==
    IF cam.kind = "persp" THEN cam.bounds ELSE Null

\* getPointFromEvent with a sample outside the wall clamped to the wall's
\* edge instead of being refused
getPointFromEvent_clamped(cam, clientX, clientY) ==
    IF cam.kind = "none" THEN Null
    ELSE LET wallBounds == calculateWallBounds(cam) IN
         IF wallBounds = Null THEN Null
         ELSE LET rawX == clientX - rect.left
                  rawY == clientY - rect.top
                  canvasX == IF rawX < wallBounds.minX THEN wallBounds.minX
                             ELSE IF rawX > wallBounds.maxX THEN wallBounds.maxX
                             ELSE rawX
                  canvasY == IF rawY < wallBounds.minY THEN wallBounds.minY
                             ELSE IF rawY > wallBounds.maxY THEN wallBounds.maxY
                             ELSE rawY
              IN  Point(((canvasX - wallBounds.minX) * UNIT)
                            \div (wallBounds.maxX - wallBounds.minX),
                        ((canvasY - wallBounds.minY) * UNIT)
                            \div (wallBounds.maxY - wallBounds.minY))

\* getPointFromEvent: screen position -> normalised wall point, or null
getPointFromEvent(cam, clientX, clientY) ==
    IF cam.kind = "none" THEN Null
    ELSE LET wallBounds == calculateWallBounds(cam) IN
         IF wallBounds = Null THEN Null
         ELSE LET canvasX == clientX - rect.left
                  canvasY == clientY - rect.top
              IN  IF \/ canvasX < wallBounds.minX
                     \/ canvasX > wallBounds.maxX
                     \/ canvasY < wallBounds.minY
                     \/ canvasY > wallBounds.maxY
                  THEN Null
                  ELSE LET w == wallBounds.maxX - wallBounds.minX
                           h == wallBounds.maxY - wallBounds.minY
                       IN  \* inside bounds of width 0 the quotient is 0 / 0
                           IF w = 0 \/ h = 0
                           THEN NaNPoint(w = 0, h = 0,
                                         IF w = 0 THEN 0
                                         ELSE ((canvasX - wallBounds.minX) * UNIT) \div w,
                                         IF h = 0 THEN 0
                                         ELSE ((canvasY - wallBounds.minY) * UNIT) \div h)
                           ELSE Point(((canvasX - wallBounds.minX) * UNIT) \div w,
                                      ((canvasY - wallBounds.minY) * UNIT) \div h)

\* shouldAcceptPoint without the timeDelta === 0 guard: distance / 0 is
\* Infinity or NaN, and neither is <= the threshold
shouldAcceptPoint_noZeroGuard(lastPoint, newPoint, canvasWidth, canvasHeight, threshold, now) ==
    LET timeDelta == now - lastPoint.time
        dx == (newPoint.x - lastPoint.x) * ((canvasWidth * SUB) \div UNIT)
        dy == (newPoint.y - lastPoint.y) * ((canvasHeight * SUB) \div UNIT)
        distanceSq == dx * dx + dy * dy
    IN  IF timeDelta = 0 THEN FALSE
        ELSE IF timeDelta > 0
        THEN distanceSq * threshold.den * threshold.den
               <= threshold.num * threshold.num * timeDelta * timeDelta * SUB * SUB
        ELSE TRUE

\* shouldAcceptPoint with the velocity comparison lost: every sample passes
shouldAcceptPoint_acceptAll(lastPoint, newPoint, canvasWidth, canvasHeight, threshold, now) ==
    TRUE

\* shouldAcceptPoint(lastPoint, newPoint, canvasWidth, canvasHeight,
\* velocityThreshold) evaluated when Date.now() = now
shouldAcceptPoint(lastPoint, newPoint, canvasWidth, canvasHeight, threshold, now) ==
    LET timeDelta == now - lastPoint.time IN
    IF timeDelta = 0 THEN TRUE
    ELSE IF HasNaN(lastPoint) \/ HasNaN(newPoint)
    THEN \* the distance and the velocity are NaN, and NaN <= threshold is false
         FALSE
    ELSE LET dx == (newPoint.x - lastPoint.x) * ((canvasWidth * SUB) \div UNIT)
             dy == (newPoint.y - lastPoint.y) * ((canvasHeight * SUB) \div UNIT)
             distanceSq == dx * dx + dy * dy
         IN  \* distance / timeDelta <= threshold, squared and cross-multiplied
             \* (a negative timeDelta gives a velocity <= 0, which is accepted)
             IF timeDelta > 0
             THEN distanceSq * threshold.den * threshold.den
                    <= threshold.num * threshold.num * timeDelta * timeDelta * SUB * SUB
             ELSE TRUE

\* snapToAngle without the CARVE_MIN_SNAP_DISTANCE test: every move is snapped
snapToAngle_noJitterGuard(fromPoint, toPoint) ==
    LET dx == toPoint.x - fromPoint.x
        dy == toPoint.y - fromPoint.y
        distanceSq == dx * dx + dy * dy
        sx == IF dx < 0 THEN 0 - 1 ELSE 1
        sy == IF dy < 0 THEN 0 - 1 ELSE 1
        s == Abs(dx) + Abs(dy)
    IN  IF s * s < 2 * dx * dx
        THEN Point(fromPoint.x + sx * FloorSqrt(distanceSq), fromPoint.y)
        ELSE IF s * s < 2 * dy * dy
        THEN Point(fromPoint.x, fromPoint.y + sy * FloorSqrt(distanceSq))
        ELSE Point(fromPoint.x + sx * FloorSqrt(distanceSq \div 2),
                   fromPoint.y + sy * FloorSqrt(distanceSq \div 2))

\* snapToAngle(fromPoint, toPoint)
snapToAngle(fromPoint, toPoint) ==
    LET dx == toPoint.x - fromPoint.x
        dy == toPoint.y - fromPoint.y
        distanceSq == dx * dx + dy * dy
        sx == IF dx < 0 THEN 0 - 1 ELSE 1
        sy == IF dy < 0 THEN 0 - 1 ELSE 1
        s == Abs(dx) + Abs(dy)
    IN  IF HasNaN(fromPoint) \/ HasNaN(toPoint)
        THEN \* distance and angle are NaN, and so are both coordinates
             NaNPoint(TRUE, TRUE, 0, 0)
        ELSE IF distanceSq < CARVE_MIN_SNAP_DISTANCE * CARVE_MIN_SNAP_DISTANCE
        THEN toPoint
        ELSE IF s * s < 2 * dx * dx
             THEN \* nearest direction is 0 or 180 degrees
                  Point(fromPoint.x + sx * FloorSqrt(distanceSq), fromPoint.y)
             ELSE IF s * s < 2 * dy * dy
             THEN \* nearest direction is +90 or -90 degrees
                  Point(fromPoint.x, fromPoint.y + sy * FloorSqrt(distanceSq))
             ELSE \* a diagonal: both components are distance / sqrt(2)
                  Point(fromPoint.x + sx * FloorSqrt(distanceSq \div 2),
                        fromPoint.y + sy * FloorSqrt(distanceSq \div 2))

----------------------------------------------------------------------------
(* The stroke recorder: useDrawing *)

\* ev: op = the handler that ran last, res = what it did, prev = what the
\* previous move of the same gesture did ("none" before the first move)
Ev(op, res, prev) == [op |-> op, res |-> res, prev |-> prev]

\* why getPointFromEvent gave no point
NoPointReason(cam) == IF calculateWallBounds(cam) = Null THEN "nocamera" ELSE "outside"

NoProbe == [kind |-> "none"]

NoRequest == [state |-> "none"]

\* no fetch under way
NoResults == [state |-> "none"]

\* no fetch under way, the front wall faced, the shipped flags, no session
\* yet, an empty rate limit map
RestIdle ==
    /\ results = NoResults
    /\ facing = "front"
    /\ isTransitioning = FALSE
    /\ touchStartX = Null
    /\ flags = FEATURE_FLAGS
    /\ sessionId = 0
    /\ lastActivity = 0
    /\ inflight = <<>>
    /\ rateLimitMap = <<>>
    /\ lastCleanup = 0

\* no marks stored, fetched or drawn, nothing posted
PageIdle ==
    /\ RestIdle
    /\ server = <<>>
    /\ graffiti = <<>>
    /\ texture = [opacity |-> <<>>, painted |-> <<>>]
    /\ request = NoRequest
    /\ channel = <<>>
    /\ hasPosted = FALSE
    /\ frame = [at |-> 0, marks |-> <<>>, opacity |-> <<>>]

Init ==
    /\ implement = "scribble"
    /\ strokes = <<>>
    /\ currentStroke = <<>>
    /\ isDrawing = FALSE
    /\ lastPointRef = Null
    /\ camera \in CameraStates
    /\ clock = 0
    /\ submitted = Null
    /\ ev = Ev("init", "none", "none")
    /\ probe = NoProbe
    /\ PageIdle

\* handleDrawStart(clientX, clientY)
handleDrawStart(s) ==
    /\ submitted' = Null
    /\ LET point == getPointFromEvent(camera, s.x, s.y) IN
       IF point = Null
       THEN /\ ev' = Ev("start", NoPointReason(camera), "none")
            /\ UNCHANGED <<currentStroke, isDrawing, lastPointRef>>
       ELSE IF selectorMode
       THEN /\ ev' = Ev("start", "select", "none")
            /\ UNCHANGED <<currentStroke, isDrawing, lastPointRef>>
       ELSE /\ isDrawing' = TRUE
            /\ currentStroke' = <<point>>
            /\ lastPointRef' = createTimedPoint(point, clock)
            /\ ev' = Ev("start", "started", "none")
    /\ UNCHANGED <<implement, strokes, camera, clock, probe>>

\* what the latest move of the running gesture did
PrevRes == IF ev.op = "move" THEN ev.res ELSE "none"

\* handleDrawMove(clientX, clientY)
handleDrawMove(s) ==
    /\ Len(currentStroke) < MaxPath
    /\ submitted' = Null
    /\ IF ~isDrawing \/ selectorMode
       THEN /\ ev' = Ev("move", "idle", "none")
            /\ UNCHANGED <<currentStroke, lastPointRef>>
       ELSE LET point == getPointFromEvent(camera, s.x, s.y) IN
            IF point = Null
            THEN /\ ev' = Ev("move", NoPointReason(camera), PrevRes)
                 /\ UNCHANGED <<currentStroke, lastPointRef>>
            ELSE IF implement = "carved" /\ lastPointRef # Null
            THEN IF ~shouldAcceptPoint(lastPointRef, point, rect.width, rect.height,
                                       CARVE_VELOCITY_THRESHOLD, clock)
                 THEN /\ lastPointRef' = createTimedPoint(point, clock)
                      /\ ev' = Ev("move", "rejected", PrevRes)
                      /\ UNCHANGED currentStroke
                 ELSE LET snappedPoint == snapToAngle(lastPointRef, point) IN
                      /\ currentStroke' = Append(currentStroke, snappedPoint)
                      /\ lastPointRef' = createTimedPoint(snappedPoint, clock)
                      /\ ev' = Ev("move", "snapped", PrevRes)
            ELSE /\ currentStroke' = Append(currentStroke, point)
                 /\ lastPointRef' = createTimedPoint(point, clock)
                 /\ ev' = Ev("move", "appended", PrevRes)
    /\ UNCHANGED <<implement, strokes, isDrawing, camera, clock, probe>>

\* handleDrawEnd without setCurrentStroke([]): the working path survives
handleDrawEnd_keepsPath(op) ==
    /\ IF ~isDrawing
       THEN /\ ev' = Ev(op, "idle", "none")
            /\ submitted' = Null
            /\ UNCHANGED <<currentStroke, isDrawing, lastPointRef>>
       ELSE /\ isDrawing' = FALSE
            /\ IF Len(currentStroke) >= 1
               THEN LET newStrokes == Append(strokes, currentStroke) IN
                    /\ submitted' = [wall |-> facing, strokeData |-> newStrokes,
                                     implement |-> implement]
                    /\ ev' = Ev(op, "submitted", "none")
               ELSE /\ ev' = Ev(op, "empty", "none")
                    /\ submitted' = Null
            /\ UNCHANGED currentStroke
            /\ lastPointRef' = Null
    /\ UNCHANGED <<implement, strokes, camera, clock, probe>>

\* handleDrawEnd(); op names the DOM event that called it
handleDrawEnd(op) ==
    /\ IF ~isDrawing
       THEN /\ ev' = Ev(op, "idle", "none")
            /\ submitted' = Null
            /\ UNCHANGED <<currentStroke, isDrawing, lastPointRef>>
       ELSE /\ isDrawing' = FALSE
            /\ IF Len(currentStroke) >= 1
               THEN LET newStrokes == Append(strokes, currentStroke) IN
                    /\ submitted' = [wall |-> facing, strokeData |-> newStrokes,
                                     implement |-> implement]
                    /\ ev' = Ev(op, "submitted", "none")
               ELSE /\ ev' = Ev(op, "empty", "none")
                    /\ submitted' = Null
            /\ currentStroke' = <<>>
            /\ lastPointRef' = Null
    /\ UNCHANGED <<implement, strokes, camera, clock, probe>>

\* onMouseDown / onTouchStart
PointerDown == (\E s \in Samples : handleDrawStart(s)) /\ UNCHANGED pageVars

\* onMouseMove / touchmove
PointerMove == (\E s \in Samples : handleDrawMove(s)) /\ UNCHANGED pageVars

\* onMouseUp / onTouchEnd
PointerUp == handleDrawEnd("end") /\ UNCHANGED pageVars

\* onMouseLeave={handleMouseUp}
MouseLeave == handleDrawEnd("leave") /\ UNCHANGED pageVars

\* handleImplementChange(newImplement)
handleImplementChange ==
    /\ \E newImplement \in Implements :
          /\ newImplement # implement
          /\ implement' = newImplement
    /\ UNCHANGED <<strokes, currentStroke, isDrawing, lastPointRef, camera, clock,
                   submitted, ev, probe, pageVars>>

\* the camera turns or the view is resized: onCameraReady / useFrame
CameraChange ==
    /\ \E c \in CameraStates :
          /\ c # camera
          /\ camera' = c
    /\ UNCHANGED <<implement, strokes, currentStroke, isDrawing, lastPointRef,
                   clock, submitted, ev, probe, pageVars>>

\* time passes between two events
Tick ==
    /\ \E d \in TickSet :
          /\ clock + d <= MaxClock
          /\ clock' = clock + d
    /\ UNCHANGED <<recorderVars, probe, pageVars>>

Next ==
    \/ PointerDown
    \/ PointerMove
    \/ PointerUp
    \/ MouseLeave
    \/ handleImplementChange
    \/ CameraChange
    \/ Tick

Spec == Init /\ [][Next]_vars

----------------------------------------------------------------------------
(* The stroke recorder when no wall rectangle of positive size is projected *)

\* wall rectangles of zero width, of zero height, and of a canvas of size 0
DegenerateBoundsSet ==
    { [minX |-> 200, maxX |-> 200, minY |-> 100, maxY |-> 500],
      [minX |-> 100, maxX |-> 300, minY |-> 300, maxY |-> 300],
      [minX |-> 0, maxX |-> 0, minY |-> 0, maxY |-> 0] }

DegenerateCameras ==
    { [kind |-> "none"], [kind |-> "ortho"] } \cup
    { [kind |-> "persp", bounds |-> b] : b \in DegenerateBoundsSet }

InitDegenerate ==
    /\ implement = "scribble"
    /\ strokes = <<>>
    /\ currentStroke = <<>>
    /\ isDrawing = FALSE
    /\ lastPointRef = Null
    /\ camera \in DegenerateCameras
    /\ clock = 0
    /\ submitted = Null
    /\ ev = Ev("init", "none", "none")
    /\ probe = NoProbe
    /\ PageIdle

DegenerateCameraChange ==
    /\ \E c \in DegenerateCameras :
          /\ c # camera
          /\ camera' = c
    /\ UNCHANGED <<implement, strokes, currentStroke, isDrawing, lastPointRef,
                   clock, submitted, ev, probe, pageVars>>

NextDegenerate ==
    \/ PointerDown
    \/ PointerMove
    \/ PointerUp
    \/ MouseLeave
    \/ handleImplementChange
    \/ DegenerateCameraChange
    \/ Tick

SpecDegenerate == InitDegenerate /\ [][NextDegenerate]_vars

----------------------------------------------------------------------------
(* The velocity gate on its own: shouldAcceptPoint applied to drawn inputs *)

GatePoints ==
    { Point(200, 200), Point(205, 200), Point(215, 200),
      Point(300, 200), Point(220, 220), Point(400, 400) }

GateCanvases == { [width |-> 800, height |-> 600], [width |-> 400, height |-> 600] }

GateLastTimes == {0, 100}

GateNows == {0, 10, 50, 100, 200, 300}

RecorderIdle ==
    /\ implement = "scribble"
    /\ strokes = <<>>
    /\ currentStroke = <<>>
    /\ isDrawing = FALSE
    /\ lastPointRef = Null
    /\ camera = [kind |-> "none"]
    /\ submitted = Null
    /\ ev = Ev("init", "none", "none")

InitGate ==
    /\ RecorderIdle
    /\ PageIdle
    /\ clock \in GateNows
    /\ \E t \in GateLastTimes, np \in GatePoints, cv \in GateCanvases :
          probe = [kind |-> "gate",
                   lastPoint |-> createTimedPoint(Point(200, 200), t),
                   newPoint |-> np, canvas |-> cv,
                   done |-> FALSE, result |-> FALSE]

\* one call of shouldAcceptPoint with the default threshold
GateEval ==
    /\ probe.kind = "gate"
    /\ ~probe.done
    /\ probe' = [probe EXCEPT
                   !.done = TRUE,
                   !.result = shouldAcceptPoint(probe.lastPoint, probe.newPoint,
                                                probe.canvas.width, probe.canvas.height,
                                                CARVE_VELOCITY_THRESHOLD, clock)]
    /\ UNCHANGED <<recorderVars, clock, pageVars>>

NextGate == GateEval

SpecGate == InitGate /\ [][NextGate]_vars

----------------------------------------------------------------------------
(* The angle snapper on its own: snapToAngle applied to drawn inputs *)

SnapFroms == { Point(200, 200), Point(100, 300) }

SnapOffsets == {0 - 100, 0 - 40, 0 - 2, 0, 3, 30, 40}

InitSnap ==
    /\ RecorderIdle
    /\ PageIdle
    /\ clock = 0
    /\ \E f \in SnapFroms, ox \in SnapOffsets, oy \in SnapOffsets :
          probe = [kind |-> "snap", fromPoint |-> f,
                   toPoint |-> Point(f.x + ox, f.y + oy),
                   done |-> FALSE, result |-> Point(0, 0)]

\* one call of snapToAngle
SnapEval ==
    /\ probe.kind = "snap"
    /\ ~probe.done
    /\ probe' = [probe EXCEPT
                   !.done = TRUE,
                   !.result = snapToAngle(probe.fromPoint, probe.toPoint)]
    /\ UNCHANGED <<recorderVars, clock, pageVars>>

NextSnap == SnapEval

SpecSnap == InitSnap /\ [][NextSnap]_vars

----------------------------------------------------------------------------
(* The opacity function on its own: calculateOpacity applied as time passes *)

\* a JavaScript number: a fraction num/den with den > 0, NaN, or an infinity
Rat(n, d) == [kind |-> "num", num |-> n, den |-> d]
NaN == [kind |-> "nan"]
PosInf == [kind |-> "+inf"]
NegInf == [kind |-> "-inf"]

RatLe(a, b) == a.num * b.den <= b.num * a.den
RatEq(a, b) == a.num * b.den = b.num * a.den

RECURSIVE GCD(_, _)
GCD(a, b) == IF b = 0 THEN a ELSE GCD(b, a % b)

\* a fraction in lowest terms
Reduced(q) ==
    LET g == GCD(Abs(q.num), q.den) IN Rat(q.num \div g, q.den \div g)

\* age / lifespan
Divide(age, lifespan) ==
    IF lifespan = 0
    THEN IF age > 0 THEN PosInf ELSE IF age < 0 THEN NegInf ELSE NaN
    ELSE IF lifespan > 0 THEN Rat(age, lifespan) ELSE Rat(0 - age, 0 - lifespan)

\* Math.min(q, 1)
MathMinOne(q) ==
    IF q.kind = "nan" THEN NaN
    ELSE IF q.kind = "+inf" THEN Rat(1, 1)
    ELSE IF q.kind = "-inf" THEN NegInf
    ELSE IF RatLe(q, Rat(1, 1)) THEN q ELSE Rat(1, 1)

\* 1.0 - (progress * 0.7)
FadeFrom(progress) ==
    IF progress.kind = "nan" THEN NaN
    ELSE IF progress.kind = "-inf" THEN PosInf
    ELSE IF progress.kind = "+inf" THEN NegInf
    ELSE Rat(10 * progress.den - 7 * progress.num, 10 * progress.den)

\* calculateOpacity without Math.min: the fade continues below 0.3
calculateOpacity_noMin(createdAt, expiresAt, impl, now) ==
    IF impl = "carved" THEN Rat(1, 1)
    ELSE LET lifespan == expiresAt - createdAt
             age == now - createdAt
             progress == Divide(age, lifespan)
         IN  FadeFrom(progress)

\* calculateOpacity(createdAt, expiresAt, implement) evaluated when Date.now() = now
calculateOpacity(createdAt, expiresAt, impl, now) ==
    IF impl = "carved" THEN Rat(1, 1)
    ELSE LET lifespan == expiresAt - createdAt
             age == now - createdAt
             progress == MathMinOne(Divide(age, lifespan))
         IN  FadeFrom(progress)

OpacityCreated == 0 .. 3
OpacityExpires == 0 .. 6

InitOpacity ==
    /\ RecorderIdle
    /\ PageIdle
    /\ clock = 0
    /\ \E c \in OpacityCreated, e \in OpacityExpires, i \in Implements :
          probe = [kind |-> "opacity", createdAt |-> c, expiresAt |-> e,
                   implement |-> i, done |-> FALSE, now |-> 0, result |-> NaN]

\* one call of calculateOpacity for the mark
OpacityEval ==
    /\ probe.kind = "opacity"
    /\ probe' = [probe EXCEPT
                   !.done = TRUE,
                   !.now = clock,
                   !.result = calculateOpacity(probe.createdAt, probe.expiresAt,
                                               probe.implement, clock)]
    /\ UNCHANGED <<recorderVars, clock, pageVars>>

\* time passes between two evaluations
OpacityTick ==
    /\ clock < MaxNow
    /\ clock' = clock + 1
    /\ UNCHANGED <<recorderVars, probe, pageVars>>

NextOpacity == OpacityEval \/ OpacityTick

SpecOpacity == InitOpacity /\ [][NextOpacity]_vars

----------------------------------------------------------------------------
(* Binary floating point: IEEE 754 round-to-nearest-even with a mantissa   *)
(* of MantissaBits bits (a double has 53).  A value is a fraction in       *)
(* lowest terms, >= 0; exponent range is not limited.                      *)

RECURSIVE Pow2(_)
Pow2(n) == IF n = 0 THEN 1 ELSE 2 * Pow2(n - 1)

\* n / d scaled by a power of two into [2^(MantissaBits-1), 2^MantissaBits)
RECURSIVE Normalize(_, _, _)
Normalize(n, d, e) ==
    IF n < Pow2(MantissaBits - 1) * d THEN Normalize(2 * n, d, e - 1)
    ELSE IF n >= Pow2(MantissaBits) * d THEN Normalize(n, 2 * d, e + 1)
    ELSE [n |-> n, d |-> d, e |-> e]

\* the float nearest to n / d, ties to the even mantissa
FlRound(n, d) ==
    IF n = 0 THEN Rat(0, 1)
    ELSE LET t == Normalize(n, d, 0)
             m0 == t.n \div t.d
             r == t.n % t.d
             m == IF 2 * r > t.d \/ (2 * r = t.d /\ m0 % 2 = 1) THEN m0 + 1 ELSE m0
         IN  IF t.e >= 0 THEN Reduced(Rat(m * Pow2(t.e), 1))
                         ELSE Reduced(Rat(m, Pow2(0 - t.e)))

\* a + b, a - b (for a >= b), a * b and a / b of two floats
FlAdd(a, b) == FlRound(a.num * b.den + b.num * a.den, a.den * b.den)
FlSub(a, b) == FlRound(a.num * b.den - b.num * a.den, a.den * b.den)
FlMul(a, b) == FlRound(a.num * b.num, a.den * b.den)
FlDiv(a, b) ==
    IF b.num = 0 THEN IF a.num = 0 THEN NaN ELSE PosInf
    ELSE FlRound(a.num * b.den, a.den * b.num)

\* the floats of [1/16, 1) with a full mantissa, 0 and 1
FloatCoords ==
    { Reduced(Rat(m, Pow2(k))) :
         m \in Pow2(MantissaBits - 1) .. Pow2(MantissaBits) - 1,
         k \in MantissaBits .. MantissaBits + 3 }
    \cup { Rat(0, 1), Rat(1, 1) }

----------------------------------------------------------------------------
(* The coordinate transforms on their own *)

\* transformStrokeForWall with the front wall flipped as well
transformStrokeForWall_flipsFront(stroke, wall) ==
    [i \in 1 .. Len(stroke) |->
        [x |-> FlSub(Rat(1, 1), stroke[i].x), y |-> stroke[i].y]]

\* transformStrokeForWall(stroke, wall)
transformStrokeForWall(stroke, wall) ==
    IF wall = "front" THEN stroke
    ELSE [i \in 1 .. Len(stroke) |->
             [x |-> FlSub(Rat(1, 1), stroke[i].x), y |-> stroke[i].y]]

TransformPoints == { [x |-> c, y |-> Rat(1, 2)] : c \in FloatCoords }

TransformStrokes ==
    { <<>> } \cup { <<a>> : a \in TransformPoints }
             \cup { <<a, [x |-> Rat(3, 4), y |-> Rat(1, 4)]>> : a \in TransformPoints }

InitTransform ==
    /\ RecorderIdle
    /\ PageIdle
    /\ clock = 0
    /\ \E st \in TransformStrokes, w \in Walls :
          probe = [kind |-> "transform", stroke |-> st, wall |-> w,
                   applied |-> 0, result |-> st]

\* one more call of transformStrokeForWall, on the result of the last one
TransformEval ==
    /\ probe.kind = "transform"
    /\ probe.applied < 2
    /\ probe' = [probe EXCEPT
                   !.applied = probe.applied + 1,
                   !.result = transformStrokeForWall(probe.result, probe.wall)]
    /\ UNCHANGED <<recorderVars, clock, pageVars>>

NextTransform == TransformEval

SpecTransform == InitTransform /\ [][NextTransform]_vars

\* normalizedToPixels(point, width, height)
normalizedToPixels(point, width, height) ==
    [x |-> FlMul(point.x, width), y |-> FlMul(point.y, height)]

\* where the preview canvas paints a normalized point of the wall whose
\* rectangle is wallBounds: translate(minX, minY), then x * width, y * height
pixelOf(point, wallBounds) ==
    LET q == normalizedToPixels(point,
                                FlSub(wallBounds.maxX, wallBounds.minX),
                                FlSub(wallBounds.maxY, wallBounds.minY))
    IN  [x |-> FlAdd(wallBounds.minX, q.x), y |-> FlAdd(wallBounds.minY, q.y)]

\* getPointFromEvent from the bounds test on, on floating-point numbers
getPointFromEventIEEE(wallBounds, canvasX, canvasY) ==
    IF \/ ~RatLe(wallBounds.minX, canvasX)
       \/ ~RatLe(canvasX, wallBounds.maxX)
       \/ ~RatLe(wallBounds.minY, canvasY)
       \/ ~RatLe(canvasY, wallBounds.maxY)
    THEN Null
    ELSE [x |-> FlDiv(FlSub(canvasX, wallBounds.minX),
                      FlSub(wallBounds.maxX, wallBounds.minX)),
          y |-> FlDiv(FlSub(canvasY, wallBounds.minY),
                      FlSub(wallBounds.maxY, wallBounds.minY))]

\* wall rectangles in canvas pixels, one of zero width and one of zero height
RoundTripBounds ==
    { [minX |-> Rat(a, 1), maxX |-> Rat(b, 1), minY |-> Rat(1, 1), maxY |-> Rat(c, 1)] :
         a \in {0, 3}, b \in {3, 10, 13}, c \in {1, 7} }

RoundTripPoints ==
    { [x |-> c, y |-> d] : c \in FloatCoords, d \in {Rat(0, 1), Rat(1, 2)} }

InitRoundTrip ==
    /\ RecorderIdle
    /\ PageIdle
    /\ clock = 0
    /\ \E b \in RoundTripBounds, p \in RoundTripPoints :
          probe = [kind |-> "roundtrip", wallBounds |-> b, point |-> p,
                   stage |-> "point", pixel |-> Null, result |-> Null]

\* the pixel position of the point inside the rectangle
RoundTripToPixel ==
    /\ probe.kind = "roundtrip"
    /\ probe.stage = "point"
    /\ probe' = [probe EXCEPT !.stage = "pixel",
                              !.pixel = pixelOf(probe.point, probe.wallBounds)]
    /\ UNCHANGED <<recorderVars, clock, pageVars>>

\* a pointer event at that pixel position (rect.left = rect.top = 0)
RoundTripBack ==
    /\ probe.kind = "roundtrip"
    /\ probe.stage = "pixel"
    /\ probe' = [probe EXCEPT
                   !.stage = "back",
                   !.result = getPointFromEventIEEE(probe.wallBounds,
                                                    probe.pixel.x, probe.pixel.y)]
    /\ UNCHANGED <<recorderVars, clock, pageVars>>

NextRoundTrip == RoundTripToPixel \/ RoundTripBack

SpecRoundTrip == InitRoundTrip /\ [][NextRoundTrip]_vars

----------------------------------------------------------------------------
(* The renderer: renderGraffitiStrokes, as the shapes it paints *)

\* export const LINE_WIDTH_REFERENCE = 480
LINE_WIDTH_REFERENCE == 480

\* IMPLEMENT_STYLES[implement].lineWidth
IMPLEMENT_STYLES ==
    [scribble |-> [lineWidth |-> 2], marker |-> [lineWidth |-> 7],
     carved |-> [lineWidth |-> 2], whiteout |-> [lineWidth |-> 12]]

RECURSIVE Concat(_)
Concat(ss) == IF Len(ss) = 0 THEN <<>> ELSE Head(ss) \o Concat(Tail(ss))

\* (point.x * width, point.y * height), in units of 1/UNIT px
Pixel(point, width, height) == [x |-> point.x * width, y |-> point.y * height]

\* the setter of ctx.globalAlpha: a value that is not a number of [0, 1]
\* is ignored and the attribute keeps its value
setGlobalAlpha(current, value) ==
    IF value.kind = "num" /\ RatLe(Rat(0, 1), value) /\ RatLe(value, Rat(1, 1))
    THEN value
    ELSE current

\* ctx.globalAlpha while mark m of the batch is drawn; it is 1 when the
\* call begins (a new canvas, or the reset of the call before)
RECURSIVE globalAlphaAt(_, _)
globalAlphaAt(marks, m) ==
    IF m = 0 THEN Rat(1, 1)
    ELSE setGlobalAlpha(globalAlphaAt(marks, m - 1), marks[m].opacity)

\* drawStroke returning at once for a stroke of fewer than two points
drawStroke_skipsShort(g, m, k, width, height, globalAlpha) ==
    LET stroke == g.strokeData[k]
        style == IMPLEMENT_STYLES[g.implement]
        finite == SelectSeq(stroke, LAMBDA pt : ~HasNaN(pt))
    IN  IF Len(stroke) < 2 THEN <<>>
        ELSE IF Len(finite) < 2 THEN <<>>
             ELSE << [shape |-> "path", mark |-> m, stroke |-> k,
                      points |-> [i \in 1 .. Len(finite) |->
                                     Pixel(finite[i], width, height)],
                      lineWidth |-> Rat(style.lineWidth * width,
                                        LINE_WIDTH_REFERENCE),
                      wobble |-> g.implement = "scribble",
                      alpha |-> globalAlpha] >>

\* the body of g.strokeData.forEach: what stroke k of mark m paints.
\* moveTo, lineTo and arc return without effect when an argument is not
\* finite, and fill / stroke of a path with fewer than two points paint
\* nothing.
drawStroke(g, m, k, width, height, globalAlpha) ==
    LET stroke == g.strokeData[k]
        style == IMPLEMENT_STYLES[g.implement]
        finite == SelectSeq(stroke, LAMBDA pt : ~HasNaN(pt))
    IN  IF Len(stroke) < 1 THEN <<>>
        ELSE IF Len(stroke) = 1
        THEN IF g.implement = "carved" THEN <<>>
             ELSE IF HasNaN(stroke[1]) THEN <<>>
             ELSE << [shape |-> "arc", mark |-> m, stroke |-> k,
                      at |-> Pixel(stroke[1], width, height),
                      radius |-> Rat(style.lineWidth * width,
                                     2 * LINE_WIDTH_REFERENCE),
                      alpha |-> globalAlpha] >>
        ELSE IF Len(finite) < 2 THEN <<>>
             ELSE << [shape |-> "path", mark |-> m, stroke |-> k,
                      points |-> [i \in 1 .. Len(finite) |->
                                     Pixel(finite[i], width, height)],
                      lineWidth |-> Rat(style.lineWidth * width,
                                        LINE_WIDTH_REFERENCE),
                      wobble |-> g.implement = "scribble",
                      alpha |-> globalAlpha] >>

\* renderGraffitiStrokes(ctx, graffiti, width, height): the shapes painted,
\* in order, and ctx.globalAlpha on return
renderGraffitiStrokes(marks, width, height) ==
    [painted |->
        Concat([m \in 1 .. Len(marks) |->
                  Concat([k \in 1 .. Len(marks[m].strokeData) |->
                            drawStroke(marks[m], m, k, width, height,
                                       globalAlphaAt(marks, m))])]),
     globalAlpha |-> setGlobalAlpha(globalAlphaAt(marks, Len(marks)), Rat(1, 1))]

\* strokes handed to the renderer: empty, a tap, a tap without a finite
\* position, a line, and a line with a point without a finite position
RenderStrokes ==
    { <<>>,
      <<Point(100, 300)>>,
      <<NaNPoint(FALSE, TRUE, 360, 0)>>,
      <<Point(40, 40), Point(200, 80)>>,
      <<Point(40, 40), NaNPoint(TRUE, FALSE, 0, 200), Point(360, 360)>> }

RenderStrokeData ==
    { <<s>> : s \in RenderStrokes }
    \cup { <<s, <<Point(40, 40), Point(200, 80)>> >> : s \in RenderStrokes }

\* graffiti with the opacity the caller computed
RenderMarks ==
    { [implement |-> i, strokeData |-> d, opacity |-> o] :
         i \in Implements, d \in RenderStrokeData, o \in {Rat(1, 2)} }
    \cup { [implement |-> "marker", strokeData |-> <<<<Point(100, 300)>>>>,
            opacity |-> o] : o \in {Rat(1, 1), Rat(17, 10), NaN} }

RenderBatches ==
    { <<>> } \cup { <<a>> : a \in RenderMarks }
             \cup { <<a, b>> : a \in RenderMarks, b \in RenderMarks }

\* the preview canvas and a side wall texture
RenderSizes == { [width |-> 480, height |-> 736], [width |-> 512, height |-> 512] }

InitRender ==
    /\ RecorderIdle
    /\ PageIdle
    /\ clock = 0
    /\ \E batch \in RenderBatches, size \in RenderSizes :
          probe = [kind |-> "render", graffiti |-> batch, size |-> size,
                   done |-> FALSE, result |-> Null]

RenderEval ==
    /\ probe.kind = "render"
    /\ ~probe.done
    /\ probe' = [probe EXCEPT
                   !.done = TRUE,
                   !.result = renderGraffitiStrokes(probe.graffiti,
                                                    probe.size.width,
                                                    probe.size.height)]
    /\ UNCHANGED <<recorderVars, clock, pageVars>>

NextRender == RenderEval

SpecRender == InitRender /\ [][NextRender]_vars

----------------------------------------------------------------------------
(* The page: submit, create, broadcast, the client's mark list and the     *)
(* texture of the faced wall.  One create request is followed at a time.   *)

\* DECAY_DURATIONS, in ms
DECAY_DURATIONS ==
    [scribble |-> 4 * 60 * 60 * 1000, marker |-> 24 * 60 * 60 * 1000,
     carved |-> 7 * 24 * 60 * 60 * 1000, whiteout |-> 2 * 60 * 60 * 1000]

\* export const SESSION_TIMEOUT_MS = 2 * 60 * 1000
SESSION_TIMEOUT_MS == 2 * 60 * 1000

\* sessionStorage after getSessionId() at the present time.  A new uuid is
\* the next number; 0 is no stored id.  `lastActivity &&` is false for 0.
getSessionId ==
    LET shouldResetSession ==
            /\ flags.ENABLE_SESSION_TIMEOUT
            /\ lastActivity # 0
            /\ clock - lastActivity > SESSION_TIMEOUT_MS
        reset == sessionId = 0 \/ shouldResetSession
    IN  [sessionId |-> IF reset THEN sessionId + 1 ELSE sessionId,
         hasPosted |-> IF reset THEN FALSE ELSE hasPosted,
         lastActivity |-> clock]

\* hasPostedThisSession()
hasPostedThisSession ==
    IF ~flags.ENABLE_SESSION_POST_LIMIT THEN FALSE ELSE getSessionId.hasPosted

\* sessionStorage after hasPostedThisSession()
afterHasPostedThisSession ==
    IF ~flags.ENABLE_SESSION_POST_LIMIT
    THEN [sessionId |-> sessionId, hasPosted |-> hasPosted,
          lastActivity |-> lastActivity]
    ELSE getSessionId

Mark(id, wall, impl, strokeData, createdAt, expiresAt) ==
    [id |-> id, wall |-> wall, implement |-> impl, strokeData |-> strokeData,
     createdAt |-> createdAt, expiresAt |-> expiresAt]

\* getGraffitiForWall: the rows with expires_at > NOW(), oldest first
getGraffitiForWall(rows, now) ==
    SelectSeq(rows, LAMBDA g : g.expiresAt > now)

\* canvas size of a wall's texture: createDoorTexture(graffiti.front,
\* canvasWidth, canvasHeight), createWallTexture(graffiti.left, 512, 512)
TextureSize(wall) ==
    IF wall = "front" THEN [width |-> 480, height |-> 736]
                      ELSE [width |-> 512, height |-> 512]

\* createWallTexture / createDoorTexture: each mark is painted with the
\* opacity calculateOpacity gives when the texture is made
createWallTexture(marks, wall, now) ==
    LET opacity == [i \in 1 .. Len(marks) |->
                      calculateOpacity(marks[i].createdAt, marks[i].expiresAt,
                                       marks[i].implement, now)]
        graffitiWithOpacity ==
            [i \in 1 .. Len(marks) |->
                [implement |-> marks[i].implement,
                 strokeData |-> marks[i].strokeData,
                 opacity |-> opacity[i]]]
        size == TextureSize(wall)
    IN  [opacity |-> opacity,
         painted |-> renderGraffitiStrokes(graffitiWithOpacity,
                                           size.width, size.height).painted]

\* useEffect: clear preview strokes when graffiti is added to the texture
clearPreview(marks) ==
    IF Len(strokes) > 0 /\ Len(marks) > 0 THEN <<>> ELSE strokes

\* setGraffiti(marks) followed by the re-render it causes: StallGeometry's
\* useMemo makes a new texture because graffiti[wall] is a new array
setGraffiti(marks) ==
    /\ graffiti' = marks
    /\ texture' = createWallTexture(marks, facing, clock)
    /\ strokes' = clearPreview(marks)

\* the part of handleSubmit before its first await
handleSubmit(call) ==
    IF call = Null \/ hasPostedThisSession
    THEN UNCHANGED pageVars
    ELSE /\ request' = [state |-> "pending", wall |-> call.wall,
                        implement |-> call.implement,
                        strokeData |-> call.strokeData]
         /\ UNCHANGED <<server, graffiti, texture, channel, hasPosted, frame,
                        restVars>>

\* pointer positions used on the page: one on the wall, one off it
PageSamples == { [x |-> 200, y |-> 300], [x |-> 50, y |-> 50] }

\* rows the table holds for the faced wall when the page is opened
InitialRows ==
    { <<>>,
      <<Mark(1, "front", "marker", <<<<Point(100, 100)>>>>, 0, DECAY_DURATIONS["marker"])>> }

InitPage ==
    /\ implement = "scribble"
    /\ strokes = <<>>
    /\ currentStroke = <<>>
    /\ isDrawing = FALSE
    /\ lastPointRef = Null
    /\ camera \in { c \in CameraStates : c.kind = "persp" }
    /\ clock = 0
    /\ submitted = Null
    /\ ev = Ev("init", "none", "none")
    /\ probe = NoProbe
    /\ RestIdle
    /\ server \in InitialRows
    /\ graffiti = <<>>
    /\ texture = [opacity |-> <<>>, painted |-> <<>>]
    /\ request = NoRequest
    /\ channel = <<>>
    /\ hasPosted = FALSE
    /\ frame = [at |-> 0, marks |-> <<>>, opacity |-> <<>>]

PagePointerDown ==
    (\E s \in PageSamples : handleDrawStart(s)) /\ UNCHANGED pageVars

PagePointerMove ==
    (\E s \in PageSamples : handleDrawMove(s)) /\ UNCHANGED pageVars

\* onMouseUp / onTouchEnd: handleDrawEnd calls onSubmit = handleSubmit
PagePointerUp ==
    /\ request.state \notin {"pending", "persisted", "created"}
    /\ handleDrawEnd("end")
    /\ handleSubmit(submitted')

\* the least number of a set of numbers
Least(S) == CHOOSE i \in S : \A j \in S : i <= j

\* the loop over the points of one stroke: 400 at the first coordinate that
\* is not a number of [0, 1]; reading point.x of a point that is null
\* throws, and the catch block answers 500
validatePoints(stroke) ==
    LET stops == { i \in 1 .. Len(stroke) :
                      \/ "null" \in DOMAIN stroke[i]
                      \/ HasNaN(stroke[i])
                      \/ stroke[i].x < 0
                      \/ stroke[i].x > UNIT
                      \/ stroke[i].y < 0
                      \/ stroke[i].y > UNIT }
    IN  IF stops = {} THEN 200
        ELSE IF "null" \in DOMAIN stroke[Least(stops)] THEN 500
        ELSE 400

\* the checks made on one stroke
validateStroke(stroke) ==
    IF Len(stroke) = 0 \/ Len(stroke) > 500 THEN 400
    ELSE validatePoints(stroke)

\* the loop over the strokes: the answer of the first stroke that fails
validateStrokes(strokeData) ==
    LET stops == { k \in 1 .. Len(strokeData) :
                      validateStroke(strokeData[k]) # 200 }
    IN  IF stops = {} THEN 200
        ELSE validateStroke(strokeData[Least(stops)])

\* the status POST answers with when createGraffiti and the response do not
\* fail: 400 from a validation, 500 when the handler throws (destructuring
\* a null body, reading a null point), else 200.  A missing or empty wall
\* or implement is "", a missing strokeData is no field.
validate(body) ==
    IF "null" \in DOMAIN body THEN 500
    ELSE IF body.wall \notin {"front", "left", "right"} THEN 400
    ELSE IF body.implement \notin Implements THEN 400
    ELSE IF "strokeData" \notin DOMAIN body THEN 400
    ELSE IF Len(body.strokeData) = 0 THEN 400
    ELSE IF Len(body.strokeData) > 100 THEN 400
    ELSE validateStrokes(body.strokeData)

\* the request with the answer's status
Answered(req, state, status) ==
    [f \in DOMAIN req \cup {"state", "status"} |->
        IF f = "status" THEN status ELSE IF f = "state" THEN state ELSE req[f]]

\* POST /api/graffiti up to the return of createGraffiti: validate, insert
\* the row with created_at = NOW() and expires_at = Date.now() + duration
POST ==
    /\ request.state = "pending"
    /\ Len(server) < MaxMarks
    /\ IF validate(request) # 200
       THEN /\ request' = Answered(request, "failed", validate(request))
            /\ UNCHANGED server
       ELSE LET row == Mark(Len(server) + 1, request.wall, request.implement,
                            request.strokeData, clock,
                            clock + DECAY_DURATIONS[request.implement])
            IN  /\ server' = Append(server, row)
                /\ request' = [state |-> "persisted", wall |-> request.wall,
                               implement |-> request.implement,
                               strokeData |-> request.strokeData, id |-> row.id]
    /\ UNCHANGED <<recorderVars, clock, probe, graffiti, texture, channel,
                   hasPosted, frame, restVars>>

\* POST after createGraffiti: publish 'new-graffiti' with createdAt =
\* new Date() and expiresAt = that + duration (a failed publish is logged
\* and the request still succeeds), then answer { id, success: true }
publish ==
    /\ request.state = "persisted"
    /\ LET message == Mark(request.id, request.wall, request.implement,
                           request.strokeData, clock,
                           clock + DECAY_DURATIONS[request.implement])
       IN  \E published \in BOOLEAN :
              channel' = IF published THEN Append(channel, message) ELSE channel
    /\ request' = Answered(request, "created", 200)
    /\ UNCHANGED <<recorderVars, clock, probe, server, graffiti, texture,
                   hasPosted, frame, restVars>>

\* the request fails: network error, or createGraffiti throws (status 500).
\* handleSubmit logs it and shows a message
PostFails ==
    /\ request.state = "pending"
    /\ request' = [request EXCEPT !.state = "failed"]
    /\ UNCHANGED <<recorderVars, clock, probe, server, graffiti, texture,
                   channel, hasPosted, frame, restVars>>

\* handleSubmit after the await, response.ok: addLocalGraffiti, markAsPosted
handleSubmitOk ==
    /\ request.state = "created"
    /\ LET newGraffiti == Mark(request.id, request.wall, request.implement,
                               request.strokeData, clock,
                               clock + DECAY_DURATIONS[request.implement])
       IN  setGraffiti(Append(graffiti, newGraffiti))
    /\ hasPosted' = TRUE
    /\ request' = [request EXCEPT !.state = "ok"]
    /\ UNCHANGED <<implement, currentStroke, isDrawing, lastPointRef, camera,
                   submitted, ev, clock, probe, server, channel, frame, restVars>>

\* channel.subscribe("new-graffiti", ...): the message is appended
Deliver ==
    /\ Len(channel) > 0
    /\ setGraffiti(Append(graffiti, Head(channel)))
    /\ channel' = Tail(channel)
    /\ UNCHANGED <<implement, currentStroke, isDrawing, lastPointRef, camera,
                   submitted, ev, clock, probe, server, request, hasPosted, frame,
                   restVars>>

\* fetchGraffiti: on mount and at every poll; a wall whose fetch is not ok
\* is taken to be empty
fetchGraffiti ==
    /\ \E ok \in BOOLEAN :
          setGraffiti(IF ok THEN getGraffitiForWall(server, clock) ELSE <<>>)
    /\ UNCHANGED <<implement, currentStroke, isDrawing, lastPointRef, camera,
                   submitted, ev, clock, probe, server, request, channel,
                   hasPosted, frame, restVars>>

\* an animation frame: the scene is drawn with the memoized texture
Frame ==
    /\ frame' = [at |-> clock, marks |-> graffiti,
                 opacity |-> texture.opacity]
    /\ UNCHANGED <<recorderVars, clock, probe, server, graffiti, texture,
                   request, channel, hasPosted, restVars>>

PageTick ==
    /\ \E d \in TickSet :
          /\ clock + d <= MaxPageClock
          /\ clock' = clock + d
    /\ UNCHANGED <<recorderVars, probe, pageVars>>

NextPage ==
    \/ PagePointerDown
    \/ PagePointerMove
    \/ PagePointerUp
    \/ POST
    \/ publish
    \/ PostFails
    \/ handleSubmitOk
    \/ Deliver
    \/ fetchGraffiti
    \/ Frame
    \/ PageTick

SpecPage == InitPage /\ [][NextPage]_vars

----------------------------------------------------------------------------
(* Gestures and the view: useCamera's rotate with the keyboard handler,    *)
(* the touch handlers of the stall view, and the end of the camera's turn. *)

\* everything of the page but the view
pageRestVars == <<server, graffiti, texture, request, channel, hasPosted, frame,
                  results, sessionVars, limiterVars>>

\* setFacing's update in rotate(direction)
newFacing(prev, direction) ==
    IF direction = "right"
    THEN (IF prev = "front" THEN "right"
          ELSE IF prev = "left" THEN "front"
          ELSE IF prev = "right" THEN "left"
          ELSE prev)
    ELSE (IF prev = "front" THEN "left"
          ELSE IF prev = "right" THEN "front"
          ELSE IF prev = "left" THEN "right"
          ELSE prev)

\* rotate(direction)
rotate(direction) ==
    IF isTransitioning
    THEN UNCHANGED <<facing, isTransitioning>>
    ELSE /\ isTransitioning' = TRUE
         /\ facing' = newFacing(facing, direction)

InitGesture ==
    /\ implement = "scribble"
    /\ strokes = <<>>
    /\ currentStroke = <<>>
    /\ isDrawing = FALSE
    /\ lastPointRef = Null
    /\ camera \in {c \in CameraStates : c.kind = "persp"}
    /\ clock = 0
    /\ submitted = Null
    /\ ev = Ev("init", "none", "none")
    /\ probe = NoProbe
    /\ PageIdle

\* handleKeyDown: ArrowLeft / ArrowRight
handleKeyDown ==
    /\ \E direction \in {"left", "right"} : rotate(direction)
    /\ UNCHANGED <<recorderVars, clock, probe, touchStartX, pageRestVars>>

\* useFrame: the camera has arrived at the target rotation
TransitionEnd ==
    /\ isTransitioning
    /\ isTransitioning' = FALSE
    /\ UNCHANGED <<recorderVars, clock, probe, facing, touchStartX, pageRestVars>>

\* handleTouchStart: touchStartX.current = touch.clientX, kept as a record
\* beside null
handleTouchStart ==
    /\ \E s \in Samples :
          /\ touchStartX' = [clientX |-> s.x]
          /\ handleDrawStart(s)
    /\ UNCHANGED <<facing, isTransitioning, pageRestVars>>

\* handleTouchEnd; the finger is lifted at s
handleTouchEnd ==
    /\ \E s \in Samples :
          IF touchStartX = Null
          THEN UNCHANGED <<recorderVars, clock, probe, viewVars>>
          ELSE LET touchEndX == s.x
                   diff == touchEndX - touchStartX.clientX
                   threshold == 50
                   abs == IF diff < 0 THEN -diff ELSE diff
               IN  /\ IF ~isDrawing /\ abs > threshold /\ ~isTransitioning
                      THEN rotate(IF diff > 0 THEN "left" ELSE "right")
                      ELSE UNCHANGED <<facing, isTransitioning>>
                   /\ handleDrawEnd("touchend")
                   /\ touchStartX' = Null
    /\ UNCHANGED pageRestVars

NextGesture ==
    \/ PointerDown
    \/ PointerMove
    \/ PointerUp
    \/ handleTouchStart
    \/ handleTouchEnd
    \/ handleKeyDown
    \/ TransitionEnd

SpecGesture == InitGesture /\ [][NextGesture]_vars

----------------------------------------------------------------------------
(* The client's mark list over hours: useGraffiti (one fetch when the page *)
(* is mounted, then 'new-graffiti' messages) with Home's handleSubmit and  *)
(* the server.  The fetch is followed from the request through the read of *)
(* the table to setGraffiti.                                               *)

\* what the visitor submits: a tap on the faced wall
ClientCalls ==
    { [wall |-> "front", implement |-> i, strokeData |-> << <<Point(100, 300)>> >>] :
         i \in {"whiteout", "scribble"} }

\* the page is mounted: the initial fetch is sent, the list is empty
InitClient ==
    /\ RecorderIdle
    /\ clock = 0
    /\ probe = NoProbe
    /\ server = <<>>
    /\ graffiti = <<>>
    /\ texture = [opacity |-> <<>>, painted |-> <<>>]
    /\ request = NoRequest
    /\ channel = <<>>
    /\ hasPosted = FALSE
    /\ frame = [at |-> 0, marks |-> <<>>, opacity |-> <<>>]
    /\ results = [state |-> "sent"]
    /\ facing = "front"
    /\ isTransitioning = FALSE
    /\ touchStartX = Null
    /\ flags = FEATURE_FLAGS
    /\ sessionId = 0
    /\ lastActivity = 0
    /\ inflight = <<>>
    /\ rateLimitMap = <<>>
    /\ lastCleanup = 0

\* handleDrawEnd's onSubmit call, no create request of this page pending
ClientSubmit ==
    /\ request.state \notin {"pending", "persisted", "created"}
    /\ Len(server) < MaxMarks
    /\ \E call \in ClientCalls : handleSubmit(call)
    /\ UNCHANGED <<recorderVars, clock, probe>>

\* GET /api/graffiti?wall=...: getGraffitiForWall reads the table
GET ==
    /\ results.state = "sent"
    /\ \E ok \in BOOLEAN :
          results' = [state |-> "read", ok |-> ok, at |-> clock,
                      rows |-> getGraffitiForWall(server, clock)]
    /\ UNCHANGED <<recorderVars, clock, probe, server, graffiti, texture,
                   request, channel, hasPosted, frame, viewVars, sessionVars,
                   limiterVars>>

\* fetchGraffiti after its await: setGraffiti(newGraffiti); a wall whose
\* response is not ok is taken to be empty
fetchApply ==
    /\ results.state = "read"
    /\ setGraffiti(IF results.ok THEN results.rows ELSE <<>>)
    /\ results' = NoResults
    /\ UNCHANGED <<implement, currentStroke, isDrawing, lastPointRef, camera,
                   submitted, ev, clock, probe, server, request, channel,
                   hasPosted, frame, viewVars, sessionVars, limiterVars>>

ClientTick ==
    /\ clock + HOUR <= MaxClientHours * HOUR
    /\ clock' = clock + HOUR
    /\ UNCHANGED <<recorderVars, probe, pageVars>>

NextClient ==
    \/ ClientSubmit
    \/ POST
    \/ publish
    \/ PostFails
    \/ handleSubmitOk
    \/ Deliver
    \/ GET
    \/ fetchApply
    \/ ClientTick

SpecClient == InitClient /\ [][NextClient]_vars

\* handleSubmitOk, Deliver and fetchApply as the steps they are on the
\* variable each of them consumes: the answered request, the head of the
\* channel, the fetched rows
handleSubmitOkStep ==
    /\ request.state = "created"
    /\ request' = [request EXCEPT !.state = "ok"]

DeliverStep ==
    /\ Len(channel) > 0
    /\ channel' = Tail(channel)

fetchApplyStep ==
    /\ results.state = "read"
    /\ results' = NoResults

\* a step of the client is one of these exactly when it is a step of the
\* handler
ClientSteps ==
    /\ [][handleSubmitOk <=> <<handleSubmitOkStep>>_request]_vars
    /\ [][Deliver <=> <<DeliverStep>>_channel]_vars
    /\ [][fetchApply <=> <<fetchApplyStep>>_results]_vars

\* what happens by itself: the server and the network answer, handlers
\* run, time passes.  The visitor need not submit and a request need not
\* fail.
ClientFairness ==
    /\ WF_vars(POST)
    /\ WF_vars(publish)
    /\ WF_vars(GET)
    /\ WF_vars(ClientTick)
    /\ WF_request(handleSubmitOkStep)
    /\ WF_channel(DeliverStep)
    /\ WF_results(fetchApplyStep)

SpecClientLive == SpecClient /\ ClientFairness

----------------------------------------------------------------------------
(* POST /api/graffiti on its own, for request bodies of every kind *)

\* strokeData of request bodies: valid ones, and ones with no stroke, 101
\* strokes, an empty stroke, a stroke of 501 points, a coordinate out of
\* range, a coordinate that is null (how JSON carries NaN), a null point
PostStrokeData ==
    { << <<Point(100, 300)>> >>,
      << <<Point(0, 0), Point(UNIT, UNIT)>>, <<Point(200, 200)>> >>,
      [k \in 1 .. 100 |-> <<Point(200, 200)>>],
      << [i \in 1 .. 500 |-> Point(200, 200)] >>,
      <<>>,
      [k \in 1 .. 101 |-> <<Point(200, 200)>>],
      << <<Point(100, 300)>>, <<>> >>,
      << [i \in 1 .. 501 |-> Point(200, 200)] >>,
      << <<Point(UNIT + 1, 200)>> >>,
      << <<Point(200, 0 - 1)>> >>,
      << <<Point(100, 300), NaNPoint(FALSE, TRUE, 360, 0)>> >>,
      << <<Null>> >>,
      << <<Point(UNIT + 1, 200)>>, <<Null>> >> }

\* request bodies: null, without strokeData, and every wall, implement and
\* strokeData
PostBodies ==
    { Null }
    \cup { [wall |-> w, implement |-> i] :
              w \in {"front"}, i \in {"marker"} }
    \cup { [wall |-> w, implement |-> i, strokeData |-> d] :
              w \in Walls \cup {"back", ""},
              i \in {"marker", "whiteout", "spray"},
              d \in PostStrokeData }

InitPost ==
    /\ RecorderIdle
    /\ RestIdle
    /\ clock = 0
    /\ probe = NoProbe
    /\ server = <<>>
    /\ graffiti = <<>>
    /\ texture = [opacity |-> <<>>, painted |-> <<>>]
    /\ channel = <<>>
    /\ hasPosted = FALSE
    /\ frame = [at |-> 0, marks |-> <<>>, opacity |-> <<>>]
    /\ \E body \in PostBodies :
          request = Answered(body, "pending", 0)

NextPost == POST \/ publish

SpecPost == InitPost /\ [][NextPost]_vars

----------------------------------------------------------------------------
(* The rate limiter on its own: checkRateLimit called as POST calls it,    *)
(* from two addresses, as time passes.  probe logs the calls allowed.      *)

\* const CLEANUP_INTERVAL = 60 * 1000
CLEANUP_INTERVAL == 60 * 1000

\* the map with the entry of one identifier set
MapSet(map, identifier, entry) ==
    [k \in DOMAIN map \cup {identifier} |->
        IF k = identifier THEN entry ELSE map[k]]

\* rateLimitMap and lastCleanup after cleanupExpiredEntries()
cleanupExpiredEntries ==
    IF clock - lastCleanup < CLEANUP_INTERVAL
    THEN [map |-> rateLimitMap, lastCleanup |-> lastCleanup]
    ELSE [map |-> [k \in { k \in DOMAIN rateLimitMap :
                             ~(rateLimitMap[k].resetAt < clock) } |->
                     rateLimitMap[k]],
          lastCleanup |-> clock]

\* checkRateLimit(identifier, maxRequests, windowMs): the map, lastCleanup
\* and the result after the call
checkRateLimit(identifier, maxRequests, windowMs) ==
    LET cleaned == cleanupExpiredEntries
        map == cleaned.map
        fresh == identifier \notin DOMAIN map \/ map[identifier].resetAt < clock
    IN  IF fresh
        THEN [map |-> MapSet(map, identifier,
                             [count |-> 1, resetAt |-> clock + windowMs]),
              lastCleanup |-> cleaned.lastCleanup,
              result |-> [allowed |-> TRUE, remaining |-> maxRequests - 1,
                          resetAt |-> clock + windowMs]]
        ELSE IF map[identifier].count >= maxRequests
        THEN [map |-> map,
              lastCleanup |-> cleaned.lastCleanup,
              result |-> [allowed |-> FALSE, remaining |-> 0,
                          resetAt |-> map[identifier].resetAt]]
        ELSE [map |-> MapSet(map, identifier,
                             [count |-> map[identifier].count + 1,
                              resetAt |-> map[identifier].resetAt]),
              lastCleanup |-> cleaned.lastCleanup,
              result |-> [allowed |-> TRUE,
                          remaining |-> maxRequests - (map[identifier].count + 1),
                          resetAt |-> map[identifier].resetAt]]

\* addresses of requests
Identifiers == {"10.0.0.1", "10.0.0.2"}

\* the instants at which requests arrive
LimiterTimes == {0, MINUTE, HOUR, HOUR + 1, HOUR + MINUTE + 1, 2 * HOUR + 2}

InitLimiter ==
    /\ RecorderIdle
    /\ PageIdle
    /\ clock = 0
    /\ probe = [kind |-> "limiter", allowed |-> <<>>, calls |-> 0,
                result |-> Null]

\* POST: checkRateLimit(ip, 5, 60 * 60 * 1000)
LimiterCall ==
    /\ probe.kind = "limiter"
    /\ probe.calls < MaxCalls
    /\ \E ip \in Identifiers :
          LET after == checkRateLimit(ip, 5, HOUR)
          IN  /\ rateLimitMap' = after.map
              /\ lastCleanup' = after.lastCleanup
              /\ probe' = [probe EXCEPT
                             !.calls = probe.calls + 1,
                             !.result = after.result,
                             !.allowed =
                                IF after.result.allowed
                                THEN Append(probe.allowed,
                                            [identifier |-> ip, at |-> clock])
                                ELSE probe.allowed]
    /\ UNCHANGED <<recorderVars, clock, server, graffiti, texture, request,
                   channel, hasPosted, frame, results, viewVars, sessionVars>>

LimiterTick ==
    /\ probe.kind = "limiter"
    /\ \E t \in LimiterTimes :
          /\ t > clock
          /\ clock' = t
    /\ UNCHANGED <<recorderVars, probe, pageVars>>

NextLimiter == LimiterCall \/ LimiterTick

SpecLimiter == InitLimiter /\ [][NextLimiter]_vars

----------------------------------------------------------------------------
(* The session: getSessionId, recordActivity, hasPostedThisSession and     *)
(* markAsPosted around handleSubmit, for each setting of the flags.  probe *)
(* logs the session of every mark created and whether the latest submit   *)
(* was refused.                                                            *)

\* builds of the page: the session flags as shipped, and each switched on
FlagSets ==
    { [ENABLE_SESSION_TIMEOUT |-> t, ENABLE_RATE_LIMITING |-> FALSE,
       ENABLE_SESSION_POST_LIMIT |-> p] : t \in BOOLEAN, p \in BOOLEAN }

\* the page a minute after the epoch, Home's mount effect getSessionId() done
InitSession ==
    /\ RecorderIdle
    /\ server = <<>>
    /\ graffiti = <<>>
    /\ texture = [opacity |-> <<>>, painted |-> <<>>]
    /\ request = NoRequest
    /\ channel = <<>>
    /\ frame = [at |-> 0, marks |-> <<>>, opacity |-> <<>>]
    /\ results = NoResults
    /\ facing = "front"
    /\ isTransitioning = FALSE
    /\ touchStartX = Null
    /\ rateLimitMap = <<>>
    /\ lastCleanup = 0
    /\ clock = MINUTE
    /\ flags \in FlagSets
    /\ sessionId = 1
    /\ lastActivity = MINUTE
    /\ hasPosted = FALSE
    /\ inflight = <<>>
    /\ probe = [kind |-> "session", posts |-> <<>>, refused |-> FALSE]

sessionFixed ==
    <<recorderVars, server, graffiti, texture, request, channel, frame,
      results, viewVars, limiterVars, flags>>

\* window 'touchstart' / 'click' listener: recordActivity()
handleInteraction ==
    /\ lastActivity' = clock
    /\ UNCHANGED <<sessionFixed, clock, sessionId, hasPosted, inflight, probe>>

\* the page is loaded again in the same tab: getSessionId(); the answers to
\* the requests of the page before are lost
Reload ==
    /\ sessionId' = getSessionId.sessionId
    /\ hasPosted' = getSessionId.hasPosted
    /\ lastActivity' = getSessionId.lastActivity
    /\ inflight' = <<>>
    /\ UNCHANGED <<sessionFixed, clock, probe>>

\* handleSubmit up to its await: refused when hasPostedThisSession(),
\* else the create request is sent
SessionSubmit ==
    /\ Len(inflight) < MaxInflight
    /\ Len(probe.posts) + Len(inflight) < MaxPosts
    /\ sessionId' = afterHasPostedThisSession.sessionId
    /\ hasPosted' = afterHasPostedThisSession.hasPosted
    /\ lastActivity' = afterHasPostedThisSession.lastActivity
    /\ IF hasPostedThisSession
       THEN /\ probe' = [probe EXCEPT !.refused = TRUE]
            /\ UNCHANGED inflight
       ELSE /\ probe' = [probe EXCEPT !.refused = FALSE]
            /\ inflight' = Append(inflight, sessionId')
    /\ UNCHANGED <<sessionFixed, clock>>

\* the sequence without its element i
RemoveAt(seq, i) == SubSeq(seq, 1, i - 1) \o SubSeq(seq, i + 1, Len(seq))

\* handleSubmit after its await, response.ok: addLocalGraffiti, markAsPosted()
SessionResponseOk ==
    /\ \E i \in 1 .. Len(inflight) :
          /\ inflight' = RemoveAt(inflight, i)
          /\ probe' = [probe EXCEPT !.posts = Append(probe.posts, inflight[i])]
    /\ hasPosted' = TRUE
    /\ UNCHANGED <<sessionFixed, clock, sessionId, lastActivity>>

\* handleSubmit after its await, response not ok or fetch rejected
SessionResponseFail ==
    /\ \E i \in 1 .. Len(inflight) : inflight' = RemoveAt(inflight, i)
    /\ UNCHANGED <<sessionFixed, clock, sessionId, lastActivity, hasPosted, probe>>

SessionTick ==
    /\ clock + MINUTE <= MaxSessionMinutes * MINUTE
    /\ clock' = clock + MINUTE
    /\ UNCHANGED <<sessionFixed, sessionId, lastActivity, hasPosted, inflight, probe>>

NextSession ==
    \/ handleInteraction
    \/ Reload
    \/ SessionSubmit
    \/ SessionResponseOk
    \/ SessionResponseFail
    \/ SessionTick

SpecSession == InitSession /\ [][NextSession]_vars

----------------------------------------------------------------------------
(* One tap followed from capture to the wall texture, for each wall *)

\* the perspective camera facing the wall that is drawn on
PipelineCamera == [kind |-> "persp", bounds |-> CHOOSE b \in WallBoundsSet : TRUE]

InitPipeline ==
    /\ RecorderIdle
    /\ PageIdle
    /\ clock = 0
    /\ \E w \in Walls, s \in Samples, i \in FadingImplements :
          probe = [kind |-> "pipeline", wall |-> w, sample |-> s,
                   implement |-> i, stage |-> "input", point |-> Null,
                   strokeData |-> <<>>, painted |-> <<>>]

\* handleDrawStart: getPointFromEvent(clientX, clientY)
PipeCapture ==
    /\ probe.kind = "pipeline"
    /\ probe.stage = "input"
    /\ LET point == getPointFromEvent(PipelineCamera, probe.sample.x, probe.sample.y)
       IN  probe' = [probe EXCEPT
                       !.stage = IF point = Null THEN "ignored" ELSE "captured",
                       !.point = point]
    /\ UNCHANGED <<recorderVars, clock, pageVars>>

\* handleDrawEnd: onSubmit(facing, [...strokes, currentStroke], implement)
PipeSubmit ==
    /\ probe.kind = "pipeline"
    /\ probe.stage = "captured"
    /\ probe' = [probe EXCEPT !.stage = "submitted",
                              !.strokeData = << <<probe.point>> >>]
    /\ UNCHANGED <<recorderVars, clock, pageVars>>

\* POST: createGraffiti(wall, implement, strokeData, color), and the mark
\* as a client receives it
PipeStore ==
    /\ probe.kind = "pipeline"
    /\ probe.stage = "submitted"
    /\ validate([wall |-> probe.wall, implement |-> probe.implement,
                  strokeData |-> probe.strokeData]) = 200
    /\ probe' = [probe EXCEPT !.stage = "stored"]
    /\ UNCHANGED <<recorderVars, clock, pageVars>>

\* StallGeometry: createWallTexture(graffiti[wall], ...)
PipeRender ==
    /\ probe.kind = "pipeline"
    /\ probe.stage = "stored"
    /\ LET mark == Mark(1, probe.wall, probe.implement, probe.strokeData,
                        clock, clock + DECAY_DURATIONS[probe.implement])
       IN  probe' = [probe EXCEPT
                       !.stage = "rendered",
                       !.painted = createWallTexture(<<mark>>, probe.wall, clock).painted]
    /\ UNCHANGED <<recorderVars, clock, pageVars>>

NextPipeline == PipeCapture \/ PipeSubmit \/ PipeStore \/ PipeRender

SpecPipeline == InitPipeline /\ [][NextPipeline]_vars

----------------------------------------------------------------------------
(* Properties of the stroke recorder *)

\* the sample lies within the wall rectangle the camera projects
InsideBounds(cam, s) ==
    /\ cam.kind = "persp"
    /\ s.x - rect.left >= cam.bounds.minX
    /\ s.x - rect.left <= cam.bounds.maxX
    /\ s.y - rect.top >= cam.bounds.minY
    /\ s.y - rect.top <= cam.bounds.maxY

\* the camera projects a wall rectangle and the sample lies outside it
OutsideBounds(cam, s) == cam.kind = "persp" /\ ~InsideBounds(cam, s)

\* path q is path p with exactly one more point at its end
ExtendsByOne(p, q) == Len(q) = Len(p) + 1 /\ SubSeq(q, 1, Len(p)) = p

\* the move from lastPoint to point at time now is faster than 0.15 px/ms
\* on the overlay canvas (coordinates scaled to quarter pixels)
TooFast(lastPoint, point, now) ==
    LET qx == ((point.x - lastPoint.x) * rect.width) \div 100
        qy == ((point.y - lastPoint.y) * rect.height) \div 100
        dt == now - lastPoint.time
    IN  dt > 0 /\ 25 * (qx * qx + qy * qy) > 9 * dt * dt

InUnitSquare(pt) == pt.x >= 0 /\ pt.x <= UNIT /\ pt.y >= 0 /\ pt.y <= UNIT

\* C1: the recorder is Idle (empty working path, no reference point) or
\* Active; start with a sample inside the wall bounds takes Idle to Active
\* with a working path of exactly that point; move extends the path only
\* while Active and changes nothing while Idle; end always leaves the
\* recorder Idle with an empty path and a cleared reference point, and end
\* while Idle submits nothing.
C1_IdleShape == ~isDrawing => (currentStroke = <<>> /\ lastPointRef = Null)

C1_Step ==
    /\ \A s \in Samples :
          (handleDrawStart(s) /\ ~isDrawing /\ InsideBounds(camera, s))
             => /\ isDrawing'
                /\ currentStroke' = <<getPointFromEvent(camera, s.x, s.y)>>
    /\ \A s \in Samples :
          handleDrawMove(s)
             => IF isDrawing
                THEN /\ isDrawing'
                     /\ \/ currentStroke' = currentStroke
                        \/ ExtendsByOne(currentStroke, currentStroke')
                ELSE /\ UNCHANGED <<currentStroke, isDrawing, lastPointRef>>
                     /\ submitted' = Null
    /\ (PointerUp \/ MouseLeave)
          => /\ ~isDrawing'
             /\ currentStroke' = <<>>
             /\ lastPointRef' = Null
             /\ (~isDrawing => submitted' = Null)

C1_RecorderStateMachine == []C1_IdleShape /\ [][C1_Step]_vars

C1_Witness ==
    /\ ev.op = "end"
    /\ ev.res = "submitted"
    /\ ~isDrawing
    /\ submitted # Null
    /\ Len(submitted.strokeData[1]) = 2

\* C2: on release a working path of exactly one point is committed as a
\* one-point stroke for scribble, marker and whiteout, and for carve nothing
\* is committed (onSubmit is not called).
C2_TapCommit ==
    [][ (PointerUp /\ isDrawing /\ Len(currentStroke) = 1)
           => IF implement = "carved"
              THEN submitted' = Null
              ELSE /\ submitted' # Null
                   /\ submitted'.strokeData = <<currentStroke>> ]_vars

\* C3: when the pointer leaves the surface during an Active gesture the
\* path is discarded, the recorder is Idle and onSubmit is not called.
C3_LeaveDiscards ==
    [][ (MouseLeave /\ isDrawing)
           => /\ ~isDrawing'
              /\ currentStroke' = <<>>
              /\ submitted' = Null ]_vars

\* C4: every point of the working path and of every submitted stroke has
\* x and y in [0,1], for every implement, carve included.
C4_PointsInUnitSquare ==
    /\ \A i \in 1 .. Len(currentStroke) : InUnitSquare(currentStroke[i])
    /\ submitted # Null =>
          \A k \in 1 .. Len(submitted.strokeData) :
             \A i \in 1 .. Len(submitted.strokeData[k]) :
                InUnitSquare(submitted.strokeData[k][i])

\* C5: while Active, a move outside the wall's projected bounds appends
\* nothing, keeps the gesture Active, leaves the working path and the
\* velocity reference point unchanged and submits nothing; a later move
\* inside the bounds continues the same stroke.
C5_Step ==
    \A s \in Samples :
       (handleDrawMove(s) /\ isDrawing)
          => /\ OutsideBounds(camera, s)
                  => /\ UNCHANGED <<currentStroke, isDrawing, lastPointRef>>
                     /\ submitted' = Null
             /\ (InsideBounds(camera, s) /\ implement # "carved")
                  => currentStroke'
                        = Append(currentStroke, getPointFromEvent(camera, s.x, s.y))

C5_OutsideMoveIsNoOp == [][C5_Step]_vars

C5_Witness ==
    /\ isDrawing
    /\ ev.op = "move"
    /\ ev.res = "appended"
    /\ ev.prev = "outside"
    /\ Len(currentStroke) = 2

\* C7: a carve sample the velocity gate rejects is dropped: the working path
\* is unchanged, the gesture stays Active and nothing is submitted; a carve
\* sample that passes the gate is appended to the same stroke.
C7_Step ==
    \A s \in Samples :
       (/\ handleDrawMove(s)
        /\ isDrawing
        /\ implement = "carved"
        /\ InsideBounds(camera, s)
        /\ lastPointRef # Null)
          => IF TooFast(lastPointRef, getPointFromEvent(camera, s.x, s.y), clock)
             THEN /\ currentStroke' = currentStroke
                  /\ isDrawing'
                  /\ submitted' = Null
             ELSE /\ ExtendsByOne(currentStroke, currentStroke')
                  /\ isDrawing'

C7_RejectedSampleDropped == [][C7_Step]_vars

C7_Witness ==
    /\ isDrawing
    /\ implement = "carved"
    /\ ev.op = "move"
    /\ ev.res = "snapped"
    /\ ev.prev = "rejected"
    /\ Len(currentStroke) = 2

----------------------------------------------------------------------------
(* Properties of the velocity gate *)

\* C6: the gate accepts whenever no time has elapsed since the last point,
\* whatever the distance; otherwise it accepts exactly when pixel distance /
\* elapsed ms <= 0.15.  On 800x600: 10 px in 100 ms is accepted, 200 px in
\* 10 ms is rejected.
GateElapsed == clock - probe.lastPoint.time

\* squared distance on the surface, in quarter pixels
GateDistSq ==
    LET qx == ((probe.newPoint.x - probe.lastPoint.x) * probe.canvas.width) \div 100
        qy == ((probe.newPoint.y - probe.lastPoint.y) * probe.canvas.height) \div 100
    IN  qx * qx + qy * qy

C6_GateRule ==
    (probe.kind = "gate" /\ probe.done) =>
       /\ GateElapsed = 0 => probe.result
       /\ GateElapsed > 0 =>
             (probe.result <=> 25 * GateDistSq <= 9 * GateElapsed * GateElapsed)
       /\ GateElapsed < 0 => probe.result
       /\ (/\ probe.canvas = [width |-> 800, height |-> 600]
           /\ GateDistSq = (4 * 10) * (4 * 10)
           /\ GateElapsed = 100) => probe.result
       /\ (/\ probe.canvas = [width |-> 800, height |-> 600]
           /\ GateDistSq = (4 * 200) * (4 * 200)
           /\ GateElapsed = 10) => ~probe.result

C6_Witness ==
    /\ probe.kind = "gate"
    /\ probe.done
    /\ GateElapsed = 0
    /\ GateDistSq = (4 * 200) * (4 * 200)
    /\ probe.result

----------------------------------------------------------------------------
(* Properties of the opacity function *)

OpacityDone == probe.kind = "opacity" /\ probe.done

\* C8: for every createdAt, expiresAt and now and every fading implement
\* the opacity is a number in [0.3, 1.0].
C8_OpacityRange ==
    (OpacityDone /\ probe.implement \in FadingImplements) =>
       /\ probe.result.kind = "num"
       /\ RatLe(Rat(3, 10), probe.result)
       /\ RatLe(probe.result, Rat(1, 1))

\* C9: for expiresAt > createdAt and now >= createdAt the opacity is 1.0 for
\* carve at every now, and 1.0 - 0.7 * min((now - createdAt) / (expiresAt -
\* createdAt), 1) for a fading implement: 1.0 at now = createdAt, 0.3 at
\* now = expiresAt, 0.65 at half the lifespan, and non-increasing in now.
C9_Pre(pr) ==
    /\ pr.kind = "opacity"
    /\ pr.done
    /\ pr.expiresAt > pr.createdAt
    /\ pr.now >= pr.createdAt

C9_Reference ==
    C9_Pre(probe) =>
       LET life == probe.expiresAt - probe.createdAt
           age == probe.now - probe.createdAt
       IN  /\ probe.result.kind = "num"
           /\ probe.implement = "carved" => RatEq(probe.result, Rat(1, 1))
           /\ probe.implement \in FadingImplements =>
                 /\ age < life => RatEq(probe.result, Rat(10 * life - 7 * age, 10 * life))
                 /\ age >= life => RatEq(probe.result, Rat(3, 10))
                 /\ age = 0 => RatEq(probe.result, Rat(1, 1))
                 /\ age = life => RatEq(probe.result, Rat(3, 10))
                 /\ 2 * age = life => RatEq(probe.result, Rat(65, 100))

C9_NonIncreasing ==
    (C9_Pre(probe) /\ C9_Pre(probe') /\ probe'.now >= probe.now)
       => RatLe(probe'.result, probe.result)

C10_DegenerateLifespan ==
    (/\ OpacityDone
     /\ probe.implement \in FadingImplements
     /\ probe.expiresAt <= probe.createdAt) =>
       /\ probe.result.kind = "num"
       /\ RatEq(probe.result, Rat(3, 10))

----------------------------------------------------------------------------
(* Properties of the page *)

\* two JavaScript numbers are the same finite number
SameNumber(a, b) ==
    /\ a.kind = "num"
    /\ b.kind = "num"
    /\ Reduced(a) = Reduced(b)

\* C11: at every animation frame a displayed fading mark is drawn with the
\* opacity calculateOpacity gives at the time of that frame, so the opacity
\* shown keeps decreasing while the set of marks stays the same and is never
\* the value of the moment the marks were last fetched or changed.
C11_OpacityEveryFrame ==
    \A i \in 1 .. Len(frame.marks) :
       frame.marks[i].implement \in FadingImplements =>
          SameNumber(frame.opacity[i],
                     calculateOpacity(frame.marks[i].createdAt,
                                      frame.marks[i].expiresAt,
                                      frame.marks[i].implement, frame.at))

\* the strokes the client shows: the overlay preview (strokes and the
\* working path) and the marks of its list, painted on the wall texture
PreviewStrokes == { strokes[k] : k \in 1 .. Len(strokes) } \cup {currentStroke}

Displayed(strokeData) ==
    \/ \A k \in 1 .. Len(strokeData) : strokeData[k] \in PreviewStrokes
    \/ \E i \in 1 .. Len(graffiti) :
          /\ graffiti[i].strokeData = strokeData
          /\ i <= Len(texture.opacity)

\* C12: from the moment end() commits a stroke the mark is displayed by the
\* client: while the create request is in flight, and also after the
\* request has failed.
C12_LocalRenderIndependent ==
    request.state \in {"pending", "persisted", "created", "failed"}
       => Displayed(request.strokeData)

----------------------------------------------------------------------------
(* Properties of the implement *)

\* C13: from the start of a mark's first stroke until the mark is committed
\* the implement does not change: a change requested while the gesture is
\* Active has no effect on the implement that gates, previews and submits
\* the mark.
C13_ImplementFixed == [][ isDrawing => implement' = implement ]_vars

----------------------------------------------------------------------------
(* Properties of the path from capture to texture *)

\* C14: a mark drawn on the left or the right wall reaches the wall texture
\* with x flipped exactly once (x' = 1 - x, at capture or at render, not at
\* both); a mark drawn on the front wall reaches it unflipped.
C14_FlipExactlyOnce ==
    (probe.kind = "pipeline" /\ probe.stage = "rendered") =>
       /\ Len(probe.painted) = 1
       /\ IF probe.wall \in {"left", "right"}
          THEN probe.painted[1].at.x
                  = (UNIT - probe.point.x) * TextureSize(probe.wall).width
          ELSE probe.painted[1].at.x
                  = probe.point.x * TextureSize(probe.wall).width

----------------------------------------------------------------------------
(* Properties of the recorder without usable geometry *)

\* no camera, no perspective camera, or a projected wall rectangle of zero
\* width or zero height
Unavailable(cam) ==
    \/ cam.kind # "persp"
    \/ cam.bounds.maxX = cam.bounds.minX
    \/ cam.bounds.maxY = cam.bounds.minY

NoNaNInPath == \A i \in 1 .. Len(currentStroke) : ~HasNaN(currentStroke[i])

\* C15: when the camera is missing or not a perspective camera, or the
\* projected wall bounds have zero width or height, start and move are
\* ignored: the recorder state is unchanged and nothing is submitted; and no
\* point with a non-finite coordinate is ever in a path.
C15_Step ==
    \A s \in Samples :
       ((handleDrawStart(s) \/ handleDrawMove(s)) /\ Unavailable(camera))
          => /\ UNCHANGED <<currentStroke, isDrawing, lastPointRef>>
             /\ submitted' = Null

C15_UnavailableGeometryIgnored == []NoNaNInPath /\ [][C15_Step]_vars

----------------------------------------------------------------------------
(* Properties of the angle snapper *)

SnapDone == probe.kind = "snap" /\ probe.done

\* the move, and the snapped move, as vectors from the reference point
SnapMove == [x |-> probe.toPoint.x - probe.fromPoint.x,
             y |-> probe.toPoint.y - probe.fromPoint.y]

SnapResult == [x |-> probe.result.x - probe.fromPoint.x,
               y |-> probe.result.y - probe.fromPoint.y]

LenSq(v) == v.x * v.x + v.y * v.y

Sign(n) == IF n < 0 THEN 0 - 1 ELSE IF n > 0 THEN 1 ELSE 0

\* the 8 directions, as vectors with components in {-1, 0, 1}
Directions == { [x |-> a, y |-> b] : a, b \in {0 - 1, 0, 1} } \ { [x |-> 0, y |-> 0] }

Dot(u, v) == u.x * v.x + u.y * v.y

\* the angle between direction c and v is at most the angle between d and v
AtLeastAsNear(c, d, v) ==
    LET a == Dot(c, v)
        b == Dot(d, v)
    IN  \/ b <= 0 /\ a >= b
        \/ a > 0 /\ b > 0 /\ a * a * LenSq(d) >= b * b * LenSq(c)

\* v lies along one of the 8 directions
AlongDirection(v) == v.x = 0 \/ v.y = 0 \/ Abs(v.x) = Abs(v.y)

\* v grown by one unit of 1/UNIT in each of its non-zero components
Grown(v) == [x |-> v.x + Sign(v.x), y |-> v.y + Sign(v.y)]

----------------------------------------------------------------------------
(* Properties of the coordinate transforms *)

\* |a - b| <= 2^-(MantissaBits + 1), half the spacing of the floats of [1/2, 1]
WithinHalfUlp(a, b) ==
    LET diff == Abs(a.num * b.den - b.num * a.den)
    IN  diff * Pow2(MantissaBits + 1) <= a.den * b.den

TransformDone(n) == probe.kind = "transform" /\ probe.applied = n

\* C17 as stated: transformStrokeForWall returns the stroke unchanged for
\* the front wall and maps every point (x, y) to (1 - x, y) for the left and
\* right walls, keeping the number and order of points; applying it twice
\* for a mirrored wall returns the original stroke.
C17_Involution ==
    (TransformDone(2) /\ probe.wall \in {"left", "right"})
       => probe.result = probe.stroke

\* C17, amended: the front wall's stroke is returned unchanged; for the left
\* and right walls the result has the same number of points in the same
\* order, the same y, and as x the float nearest to 1 - x (1 - x itself when
\* x >= 1/2); applying it twice returns an x within half a unit in the last
\* place of 1.0 of the original, and the original itself when x >= 1/2.
C17_TransformRule ==
    (probe.kind = "transform" /\ probe.applied >= 1) =>
       /\ probe.wall = "front" => probe.result = probe.stroke
       /\ Len(probe.result) = Len(probe.stroke)
       /\ \A i \in 1 .. Len(probe.stroke) :
             LET x == probe.stroke[i].x
                 flipped == Rat(x.den - x.num, x.den)
                 rx == probe.result[i].x
             IN  /\ probe.result[i].y = probe.stroke[i].y
                 /\ (probe.wall # "front" /\ probe.applied = 1) =>
                       /\ WithinHalfUlp(rx, flipped)
                       /\ RatLe(Rat(1, 2), x) => RatEq(rx, flipped)
                 /\ (probe.wall # "front" /\ probe.applied = 2) =>
                       /\ WithinHalfUlp(rx, x)
                       /\ RatLe(Rat(1, 2), x) => rx = x

C17_Witness ==
    /\ TransformDone(2)
    /\ probe.wall = "left"
    /\ Len(probe.stroke) = 2
    /\ probe.stroke[1].x = Rat(3, 4)
    /\ probe.result = probe.stroke

\* C18: for any point p = (x, y) with 0 <= x, y <= 1 and any wall bounds B,
\* converting p to its pixel position inside B and then applying the
\* screen-to-normalized conversion yields p again.
C18_RoundTrip ==
    (probe.kind = "roundtrip" /\ probe.stage = "back")
       => probe.result = probe.point

----------------------------------------------------------------------------
(* Properties of the renderer *)

RenderDone == probe.kind = "render" /\ probe.done

\* what stroke k of mark m of the batch made the renderer paint
ShapesOf(m, k) ==
    SelectSeq(probe.result.painted, LAMBDA s : s.mark = m /\ s.stroke = k)

FiniteStroke(stroke) == \A i \in 1 .. Len(stroke) : ~HasNaN(stroke[i])

C20_MalformedSkipped ==
    RenderDone =>
       \A m \in 1 .. Len(probe.graffiti) :
          \A k \in 1 .. Len(probe.graffiti[m].strokeData) :
             LET g == probe.graffiti[m]
                 stroke == g.strokeData[k]
             IN  IF Len(stroke) = 0 \/ ~FiniteStroke(stroke)
                 THEN ShapesOf(m, k) = <<>>
                 ELSE (Len(stroke) = 1 /\ g.implement = "carved")
                         \/ Len(ShapesOf(m, k)) = 1

\* C21: within one render call each mark is drawn with the context's global
\* alpha equal to that mark's own opacity, and when render returns the
\* global alpha is 1.0 for every batch, including an empty one.
C21_AlphaPerMark ==
    RenderDone =>
       /\ \A i \in 1 .. Len(probe.result.painted) :
             LET s == probe.result.painted[i]
             IN  s.alpha = probe.graffiti[s.mark].opacity
       /\ probe.result.globalAlpha = Rat(1, 1)

----------------------------------------------------------------------------
(* Properties of the session *)

\* the marks created from the session with the given id
PostsOf(id) == { i \in DOMAIN probe.posts : probe.posts[i] = id }

\* C23: within one session (one session id) at most one mark is posted
\* successfully, and after a successful post hasPostedThisSession() is true,
\* for any interleaving of submits and responses.
C23_OnePostPerSession ==
    probe.kind = "session" =>
       /\ \A id \in 1 .. sessionId : Cardinality(PostsOf(id)) <= 1
       /\ (PostsOf(sessionId) # {} /\ clock - lastActivity <= SESSION_TIMEOUT_MS)
             => hasPostedThisSession

\* C26: with the session timeout enabled, whenever more than
\* SESSION_TIMEOUT_MS passes without any interaction the session is reset
\* at the next interaction (a new session id, the has-posted flag false);
\* and while interactions are never more than SESSION_TIMEOUT_MS apart the
\* session id and the has-posted flag are never reset.
C26_SessionTimeout ==
    [][ (probe.kind = "session" /\ flags.ENABLE_SESSION_TIMEOUT) =>
          /\ (clock - lastActivity > SESSION_TIMEOUT_MS /\ lastActivity' = clock)
                => (sessionId' # sessionId /\ ~hasPosted')
          /\ (clock - lastActivity <= SESSION_TIMEOUT_MS)
                => (sessionId' = sessionId /\ (hasPosted => hasPosted')) ]_vars

----------------------------------------------------------------------------
(* Properties of POST /api/graffiti *)

\* a number in [0, 1]
UnitNumber(point, f) ==
    /\ "null" \notin DOMAIN point
    /\ ~HasNaN(point)
    /\ point[f] >= 0
    /\ point[f] <= UNIT

WellFormed(body) ==
    /\ "null" \notin DOMAIN body
    /\ body.wall \in {"front", "left", "right"}
    /\ "strokeData" \in DOMAIN body
    /\ Len(body.strokeData) \in 1 .. 100
    /\ \A k \in 1 .. Len(body.strokeData) :
          /\ Len(body.strokeData[k]) \in 1 .. 500
          /\ \A i \in 1 .. Len(body.strokeData[k]) :
                /\ UnitNumber(body.strokeData[k][i], "x")
                /\ UnitNumber(body.strokeData[k][i], "y")

\* C24: every mark created through POST /api/graffiti has a wall in
\* {front, left, right}, between 1 and 100 strokes, each stroke between 1
\* and 500 points, and every coordinate a number in [0, 1]; a request
\* violating any of these is answered with status 400 and causes no mark to
\* be persisted and no broadcast to be published.
C24_PostValidation ==
    /\ \A r \in 1 .. Len(server) : WellFormed(server[r])
    /\ (request.state \in {"failed", "created"} /\ ~WellFormed(request))
          => (request.status = 400 /\ server = <<>> /\ channel = <<>>)

----------------------------------------------------------------------------
(* Properties of the rate limiter *)

\* the calls allowed to an identifier in the interval [from, from + length)
AllowedIn(identifier, from, length) ==
    { i \in DOMAIN probe.allowed :
         /\ probe.allowed[i].identifier = identifier
         /\ probe.allowed[i].at >= from
         /\ probe.allowed[i].at < from + length }

\* C25: for every identifier and every time interval of length windowMs
\* (one hour), the number of checkRateLimit calls in that interval that
\* return allowed = true is at most maxRequests (5).
C25_RateLimit ==
    probe.kind = "limiter" =>
       \A i \in DOMAIN probe.allowed :
          Cardinality(AllowedIn(probe.allowed[i].identifier,
                                probe.allowed[i].at, HOUR)) <= 5

----------------------------------------------------------------------------
(* Properties of the client's mark list                                    *)

\* the marks of the list that are past their expiresAt
ExpiredDisplayed ==
    \E i \in DOMAIN graffiti : clock > graffiti[i].expiresAt

\* C22: once the present time is later than a mark's expiresAt, no fetch of
\* its wall returns the mark, and a client that displays an expired mark
\* eventually stops displaying it.
C22_MarksExpire ==
    /\ [](results.state = "read" =>
             \A i \in DOMAIN results.rows : ~(results.at > results.rows[i].expiresAt))
    /\ (ExpiredDisplayed ~> ~ExpiredDisplayed)

\* C27: in the client's list of a wall each mark id appears at most once,
\* however the initial fetch, the local add after a successful POST and
\* the deliveries of broadcasts (the client's own included) interleave.
C27_IdsUnique ==
    \A i, j \in DOMAIN graffiti :
       (graffiti[i].wall = graffiti[j].wall /\ graffiti[i].id = graffiti[j].id)
          => i = j

\* the fetch under way read the table before the mark with this id was
\* persisted: the row would have been selected, and is not among the rows
ReadBefore(id) ==
    /\ results.state = "read"
    /\ results.ok
    /\ \A k \in DOMAIN results.rows : results.rows[k].id # id
    /\ \E k \in DOMAIN server :
          server[k].id = id /\ server[k].expiresAt > results.at

\* C28: a mark that a local add or a delivery has put in the list is still
\* in the list after the result of a fetch is applied, when that fetch read
\* the table before the mark was persisted and the mark has not expired.
C28_StaleFetchKeeps ==
    [][fetchApply =>
          \A i \in DOMAIN graffiti :
             (ReadBefore(graffiti[i].id) /\ ~(clock > graffiti[i].expiresAt))
                => \E j \in DOMAIN graffiti' : graffiti'[j].id = graffiti[i].id]_vars

\* the copies of marks outside the table: messages on the channel and the
\* entries of the client's list
Copies ==
    {channel[i] : i \in DOMAIN channel} \cup {graffiti[i] : i \in DOMAIN graffiti}

\* C30: the createdAt and expiresAt of a broadcast message and of the
\* poster's local copy equal those stored for the mark, which a fetch
\* returns.
C30_TimestampsAgree ==
    \A k \in DOMAIN server :
       \A c \in Copies :
          c.id = server[k].id =>
             /\ c.createdAt = server[k].createdAt
             /\ c.expiresAt = server[k].expiresAt

----------------------------------------------------------------------------
(* Properties of gestures and the view                                     *)

\* C29: a stroke is submitted to the wall faced when its points were
\* captured: facing does not change while a gesture is Active (a rotate
\* request in that interval has no effect), the mark is submitted with
\* that facing, and the end of a touch never both submits and rotates.
C29_FacingFixed ==
    /\ [][isDrawing => facing' = facing]_vars
    /\ [][(isDrawing /\ submitted' # Null) => submitted'.wall = facing]_vars
    /\ [][(touchStartX # Null /\ touchStartX' = Null)
             => ~(facing' # facing /\ submitted' # Null)]_vars

====
